---------------------------- MODULE Spec2Model ----------------------------
(***************************************************************************)
(* A model of the Reflow site exporter: the Reflow engine (reflow.py) and  *)
(* the WebflowExporter engine (webflow_exporter.py).                       *)
(*                                                                         *)
(* Text is modelled as a sequence of tokens.  A token stands for a run of  *)
(* characters that no operation of the program ever splits: "/" is one     *)
(* slash, ".." are two dots, ".html" is the five-character suffix, an      *)
(* origin token such as "https://x.io" is a scheme with its authority.     *)
(* Concatenation of text is concatenation of token sequences, so           *)
(* '..' + 'images/a.png' is <<"..", "images", "/", "a.png">>, whose first  *)
(* path segment is the two-token name '..images'.                          *)
(***************************************************************************)
EXTENDS Integers, Sequences, FiniteSets, TLC

(***************************************************************************)
(* Text helpers (str methods)                                              *)
(***************************************************************************)
Last(s) == s[Len(s)]

Front(s) == SubSeq(s, 1, Len(s) - 1)

startswith(s, t) == Len(s) >= 1 /\ s[1] = t

endswith(s, t) == Len(s) >= 1 /\ s[Len(s)] = t

Contains(s, t) == \E i \in 1..Len(s) : s[i] = t

RECURSIVE lstrip(_, _)
lstrip(s, t) == IF startswith(s, t) THEN lstrip(Tail(s), t) ELSE s

RECURSIVE rstrip(_, _)
rstrip(s, t) == IF endswith(s, t) THEN rstrip(Front(s), t) ELSE s

\* the suffix is left in place
cut_suffix_kept(s, t) == s

\* s[:-1] if s.endswith(t) else s
cut_suffix(s, t) == IF endswith(s, t) THEN Front(s) ELSE s

\* s if s.endswith(t) else s + t
add_suffix(s, t) == IF endswith(s, t) THEN s ELSE s \o <<t>>

\* s[len(t):] if s.startswith(t) else s
cut_prefix(s, t) == IF startswith(s, t) THEN Tail(s) ELSE s

\* s if s.startswith(t) else t + s
add_prefix(s, t) == IF startswith(s, t) THEN s ELSE <<t>> \o s

\* path or '/'
or_root(path) == IF path = <<>> THEN <<"/">> ELSE path

\* s.split('/'): the segments between the slashes, empty ones included
RECURSIVE split(_)
split(s) ==
  IF \A i \in 1..Len(s) : s[i] # "/"
  THEN <<s>>
  ELSE LET k == CHOOSE i \in 1..Len(s) :
                  s[i] = "/" /\ \A j \in 1..(i - 1) : s[j] # "/"
       IN  <<SubSeq(s, 1, k - 1)>> \o split(SubSeq(s, k + 1, Len(s)))

\* '/'.join(segs)
RECURSIVE slashjoin(_)
slashjoin(segs) ==
  IF Len(segs) = 0 THEN <<>>
  ELSE IF Len(segs) = 1 THEN segs[1]
  ELSE segs[1] \o <<"/">> \o slashjoin(Tail(segs))

\* [x for x in segs if x]
RECURSIVE nonempty(_)
nonempty(segs) ==
  IF Len(segs) = 0 THEN <<>>
  ELSE IF segs[1] = <<>> THEN nonempty(Tail(segs))
  ELSE <<segs[1]>> \o nonempty(Tail(segs))

(***************************************************************************)
(* posixpath                                                               *)
(***************************************************************************)
\* os.path.basename(p): what follows the last slash
basename(p) == Last(split(p))

\* os.path.dirname(p): what precedes the last slash, trailing slashes
\* removed unless it consists of slashes only
dirname(p) ==
  LET head(segs) == IF Len(segs) = 1 THEN <<>>
                    ELSE slashjoin(Front(segs)) \o <<"/">>
      strip(h, stripped) == IF h # <<>> /\ stripped # <<>> THEN stripped ELSE h
      dir(h) == strip(h, rstrip(h, "/"))
  IN  dir(head(split(p)))

\* os.path.join(a, b)
join(a, b) ==
  IF startswith(b, "/") THEN b
  ELSE IF a = <<>> \/ endswith(a, "/") THEN a \o b
  ELSE a \o <<"/">> \o b

\* the component loop of os.path.normpath
RECURSIVE normcomps(_, _, _)
normcomps(comps, acc, rooted) ==
  IF Len(comps) = 0 THEN acc
  ELSE LET c == comps[1]
       IN  IF c = <<>> \/ c = <<".">> THEN normcomps(Tail(comps), acc, rooted)
           ELSE IF c # <<"..">>
                   \/ (~rooted /\ Len(acc) = 0)
                   \/ (Len(acc) > 0 /\ Last(acc) = <<"..">>)
                THEN normcomps(Tail(comps), Append(acc, c), rooted)
           ELSE IF Len(acc) > 0 THEN normcomps(Tail(comps), Front(acc), rooted)
           ELSE normcomps(Tail(comps), acc, rooted)

\* os.path.normpath(p)
normpath(p) ==
  LET norm(rooted, body) == IF rooted THEN <<"/">> \o body
                            ELSE IF body = <<>> THEN <<".">> ELSE body
      comps(rooted) == norm(rooted, slashjoin(normcomps(split(p), <<>>, rooted)))
  IN  IF p = <<>> THEN <<".">> ELSE comps(startswith(p, "/"))

\* the length of the common prefix of two component lists
RECURSIVE commonlen(_, _)
commonlen(a, b) ==
  IF Len(a) = 0 \/ Len(b) = 0 \/ a[1] # b[1] THEN 0
  ELSE 1 + commonlen(Tail(a), Tail(b))

\* os.path.relpath(path, start), both absolute
relpath(path, start) ==
  LET curdir(rel_list) == IF Len(rel_list) = 0 THEN <<".">>
                          ELSE slashjoin(rel_list)
      rel(start_list, path_list, i) ==
        curdir([k \in 1..(Len(start_list) - i) |-> <<"..">>]
                 \o SubSeq(path_list, i + 1, Len(path_list)))
      common(start_list, path_list) ==
        rel(start_list, path_list, commonlen(start_list, path_list))
  IN  common(nonempty(split(normpath(start))), nonempty(split(normpath(path))))

(***************************************************************************)
(* urllib.parse                                                            *)
(***************************************************************************)
\* scheme-and-authority tokens, and the host each names
Netloc == [o \in {"https://x.io", "https://cdn.io"} |->
             IF o = "https://x.io" THEN "x.io" ELSE "cdn.io"]

Origins == DOMAIN Netloc

\* schemes that take no authority and no relative reference
OpaqueSchemes == {"javascript:", "mailto:", "tel:"}

\* urlparse(u).netloc
urlparse_netloc(u) ==
  IF Len(u) >= 1 /\ u[1] \in Origins THEN Netloc[u[1]] ELSE ""

\* urlparse(u).path
urlparse_path(u) ==
  IF Len(u) >= 1 /\ u[1] \in (Origins \cup OpaqueSchemes) THEN Tail(u) ELSE u

\* the dot-segment loop of urljoin
RECURSIVE resolve(_, _)
resolve(segments, acc) ==
  IF Len(segments) = 0 THEN acc
  ELSE IF segments[1] = <<"..">>
       THEN resolve(Tail(segments), IF Len(acc) > 0 THEN Front(acc) ELSE acc)
  ELSE IF segments[1] = <<".">> THEN resolve(Tail(segments), acc)
  ELSE resolve(Tail(segments), Append(acc, segments[1]))

\* urljoin(base, url) for an absolute base
urljoin(base, url) ==
  IF base = <<>> THEN url
  ELSE IF url = <<>> THEN base
  ELSE IF url[1] \in (Origins \cup OpaqueSchemes) THEN url
  ELSE
    LET base_parts(bsplit) == IF Last(bsplit) # <<>> THEN Front(bsplit)
                              ELSE bsplit
        segments(raw) == IF startswith(url, "/") THEN split(url)
                         ELSE IF Len(raw) <= 2 THEN raw
                         ELSE <<raw[1]>>
                                \o nonempty(SubSeq(raw, 2, Len(raw) - 1))
                                \o <<Last(raw)>>
        resolved(segs) == resolve(segs, <<>>)
                            \o (IF Last(segs) \in {<<".">>, <<"..">>}
                                THEN <<(<<>>)>> ELSE <<>>)
        path(joined) == IF joined = <<>> THEN <<"/">> ELSE add_prefix(joined, "/")
    IN  <<base[1]>>
          \o path(slashjoin(resolved(segments(
                 base_parts(split(urlparse_path(base))) \o split(url)))))


(***************************************************************************)
(* The run's configuration and the remote site                             *)
(***************************************************************************)
O == "https://x.io"

\* the URL given on the command line
SeedUrl == <<O, "/">>

\* __init__: self.base_url = url.rstrip('/')
base_url == rstrip(SeedUrl, "/")

\* __init__: self.domain = urlparse(self.base_url).netloc
domain == urlparse_netloc(base_url)

\* __init__: self.working_dir (Reflow), self.output_dir (WebflowExporter)
working_dir == <<"/", "out">>

\* An element of a parsed document.  tag: "a", "img", "css" (a stylesheet
\* link), "script", "style" (an inline style with one background-image
\* url), "icon" (a favicon link), "item" (an element carrying
\* data-wf-collection and data-wf-item-slug).  val: the reference the
\* element carries.  coll: the data-wf-collection of the element, or of the
\* w-dyn-list whose w-dyn-item encloses it.  slug: data-wf-item-slug.
El(tag, val) == [tag |-> tag, val |-> val, coll |-> "", slug |-> ""]

ElIn(tag, val, coll) == [tag |-> tag, val |-> val, coll |-> coll, slug |-> ""]

Item(coll, slug) == [tag |-> "item", val |-> <<>>, coll |-> coll, slug |-> slug]

Url(path) == <<O>> \o path

\* The pages the site serves, as the server renders them
Site ==
  (base_url :> <<
      El("a", <<"/", "about">>),
      El("a", <<"/", "about", "/">>),
      El("a", <<"/", "about", ".html">>),
      El("a", <<"/", "index", ".html">>),
      El("a", <<"/", "news", "/", "post-a">>),
      ElIn("a", <<"/", "blog", "/", "post-a">>, "blog"),
      ElIn("a", <<O, "/", "blog", "/", "post-b">>, "blog"),
      El("a", <<"https://cdn.io", "/", "docs">>),
      El("a", <<"#", "top">>),
      El("a", <<"javascript:", "void(0)">>),
      El("img", <<"/", "assets", "/", "logo", ".png">>),
      El("script", <<"/", "assets", "/", "logo", ".png">>),
      El("css", <<"/", "css", "/", "site", ".css">>) >>)
  @@ (Url(<<"/", "about">>) :> <<
      El("a", <<"/">>),
      El("a", <<"/", "team">>),
      El("img", <<"/", "assets", "/", "logo", ".png">>),
      El("icon", <<"/", "assets", "/", "logo", ".png">>) >>)
  @@ (Url(<<"/", "team">>) :> <<
      El("a", <<"/", "about">>),
      El("style", <<"/", "assets", "/", "team", "%20", "photo", ".png">>) >>)
  @@ (Url(<<"/", "index">>) :> <<
      El("a", <<"/", "about">>) >>)
  @@ (Url(<<"/", "news", "/", "post-a">>) :> <<
      El("a", <<"/", "about">>) >>)
  @@ (Url(<<"/", "blog", "/", "post-a">>) :> <<
      Item("blog", "post-a"),
      Item("blog", "post-c"),
      El("a", <<"/", "about">>),
      El("img", <<"/", "media", "/", "logo", ".png">>) >>)
  @@ (Url(<<"/", "blog", "/", "post-b">>) :> <<
      Item("blog", "post-b") >>)
  @@ (Url(<<"/", "blog", "/", "post-c">>) :> <<
      Item("blog", "post-c"),
      Item("blog", "post-d"),
      El("a", <<"/", "team">>),
      El("img", <<"/", "assets", "/", "logo", ".png">>) >>)

(***************************************************************************)
(* Reflow (reflow.py): the document rewriter                               *)
(***************************************************************************)
\* Reflow.sanitize_filename: percent-decoding, then every character that is
\* invalid in a file name, and every space, becomes an underscore
sanitize_filename(filename) ==
  [i \in 1..Len(filename) |->
     IF filename[i] \in {"%20", " ", ":", "?", "*"} THEN "_" ELSE filename[i]]

\* Reflow.process_html, process_css: the path from the output file's
\* directory back to the root of the working directory
rel_path_to_root(output_path) ==
  LET root(r) == IF r = <<".">> THEN <<>> ELSE r
  IN  root(relpath(<<"/">>,
                   dirname(<<"/">> \o relpath(output_path, working_dir))))

\* Reflow.process_html: the local path and the rewritten reference of an
\* asset of class directory dir referenced as ref from a page at base
asset_ref(ref, base, dir, rel) ==
  LET local(absolute_url, sanitized) ==
        [task |-> [url |-> absolute_url, path |-> join(<<dir>>, sanitized)],
         ref  |-> rel \o <<dir, "/">> \o sanitized]
      resolved(absolute_url) ==
        local(absolute_url,
              sanitize_filename(basename(lstrip(urlparse_path(absolute_url), "/"))))
  IN  resolved(urljoin(base, ref))

\* Reflow.process_html: the rewritten href of an <a>
link_href(href, base, rel) ==
  IF   startswith(href, "#") \/ startswith(href, "mailto:")
    \/ startswith(href, "tel:")
  THEN href
  ELSE
    LET local(path) ==
          IF path = <<"/">> THEN rel \o <<"/">>
          ELSE rel \o add_suffix(cut_suffix(lstrip(path, "/"), "/"), ".html")
        resolved(absolute_url, netloc) ==
          IF netloc = domain \/ netloc = ""
          THEN local(add_prefix(cut_prefix(or_root(urlparse_path(absolute_url)),
                                           domain), "/"))
          ELSE href
        joined(absolute_url) == resolved(absolute_url, urlparse_netloc(absolute_url))
    IN  joined(urljoin(base, href))

\* Reflow.process_html on one element: whether it stays in the document,
\* what it becomes, and the asset tasks it registers
process_element(e, base, rel, css) ==
  LET same == [keep |-> TRUE, el |-> e, tasks |-> {}]
      local(a) == [keep |-> TRUE, el |-> [e EXCEPT !.val = a.ref], tasks |-> {a.task}]
      asset(dir) == local(asset_ref(e.val, base, dir, rel))
  IN  CASE e.tag = "a"      -> [same EXCEPT !.el.val = link_href(e.val, base, rel)]
        [] e.tag = "img"    -> IF Contains(e.val, "webflow-badge")
                               THEN [same EXCEPT !.keep = FALSE]
                               ELSE asset("images")
        [] e.tag = "css"    -> IF css THEN asset("css") ELSE same
        [] e.tag = "script" -> asset("js")
        [] e.tag = "style"  -> asset("images")
        [] e.tag = "icon"   -> asset("images")
        [] OTHER            -> same

\* Reflow.process_html: the rewritten document and the tasks it registers
RECURSIVE process_html(_, _, _, _)
process_html(soup, base, output_path, css) ==
  IF Len(soup) = 0 THEN [soup |-> <<>>, tasks |-> {}]
  ELSE LET both(r, rest) ==
             [soup  |-> (IF r.keep THEN <<r.el>> ELSE <<>>) \o rest.soup,
              tasks |-> r.tasks \cup rest.tasks]
       IN  both(process_element(soup[1], base, rel_path_to_root(output_path), css),
                process_html(Tail(soup), base, output_path, css))


(***************************************************************************)
(* State                                                                   *)
(***************************************************************************)
VARIABLES
  engine,              \* "reflow" (reflow.py) or "webflow" (webflow_exporter.py)
  process_cms,         \* self.process_cms / self.follow_cms
  process_css,         \* the attribute self.process_css
  css_option,          \* the process_css argument the exporter was created with
  create_zip,          \* self.create_zip: the export is built in a temporary directory
  pc,                  \* where crawl_site stands
  outcome,             \* how crawl_site ended
  visited_urls,        \* self.visited_urls
  assets_to_download,  \* self.assets_to_download
  cms_pages,           \* self.cms_pages, in insertion order
  cms_collections,     \* self.cms_collections, in insertion order
  links_to_crawl,      \* Reflow: what is left of links_to_crawl
  cms_paths,           \* what is left of cms_paths / cms_urls
  urls_to_crawl,       \* WebflowExporter: the queue of URLs
  files,               \* the file system below the output directory
  net,                 \* every HTTP request made so far, in order
  wlog,                \* every file written so far, in order
  failures,            \* requests the network has failed so far
  iter_size,           \* the pool's iteration over the task set: its size at the start
  pending,             \* tasks the iteration has not yet yielded
  queue,               \* the executor's work queue
  workers,             \* what each worker thread is doing
  results,             \* how each finished download_asset call ended
  call                 \* the last call of a rewriter made on its own

vars == <<engine, process_cms, process_css, css_option, create_zip, pc, outcome, visited_urls,
          assets_to_download, cms_pages, cms_collections, links_to_crawl,
          cms_paths, urls_to_crawl, files, net, wlog, failures, iter_size,
          pending, queue, workers, results, call>>

config_vars == <<engine, process_cms, process_css, css_option, create_zip, call>>

crawl_vars == <<visited_urls, assets_to_download, cms_pages, cms_collections,
                links_to_crawl, cms_paths, urls_to_crawl>>

pool_vars == <<iter_size, pending, queue, workers, results>>

\* requests the network may fail in one run
MaxFailures == 1

\* self.max_workers
max_workers == 2

\* one thread more than max_workers
Workers_one_more == 1..(max_workers + 1)

\* the threads of ThreadPoolExecutor(max_workers=self.max_workers)
Workers == 1..max_workers

\* the assets the server has
AssetSite ==
  { Url(<<"/", "assets", "/", "logo", ".png">>),
    Url(<<"/", "media", "/", "logo", ".png">>),
    Url(<<"/", "assets", "/", "team", "%20", "photo", ".png">>),
    Url(<<"/", "assets", "/", "bg", ".png">>),
    Url(<<"/", "css", "/", "site", ".css">>) }

\* the url(...) references of the stylesheets the server has
CssBody ==
  (Url(<<"/", "css", "/", "site", ".css">>) :>
      << <<"..", "/", "assets", "/", "bg", ".png">>,
         <<"..", "/", "assets", "/", "logo", ".png">> >>)

\* what a GET of a page answers: 200 or the failure status
page_status(url, inject) ==
  IF url \notin DOMAIN Site THEN 404 ELSE IF inject THEN 500 ELSE 200

asset_status(url, inject) ==
  IF url \notin AssetSite THEN 404 ELSE IF inject THEN 500 ELSE 200

Req(kind, url, status) == [kind |-> kind, url |-> url, status |-> status]

PageFile(url, soup) == [kind |-> "page", url |-> url, body |-> soup]

AssetFile(url, body) == [kind |-> "asset", url |-> url, body |-> body]

OldFile == [kind |-> "old", url |-> <<>>, body |-> <<>>]

Wrote(path, url) == [path |-> path, url |-> url]

exists(path) == path \in DOMAIN files

(***************************************************************************)
(* Reflow (reflow.py): pages                                               *)
(***************************************************************************)
\* the page is fetched together with the logo it shows
download_page_inline(url, inject) ==
  IF url \in visited_urls THEN
    [visited |-> visited_urls, reqs |-> <<>>, ok |-> FALSE, soup |-> <<>>]
  ELSE IF page_status(url, inject) # 200 THEN
    [visited |-> visited_urls \cup {url},
     reqs |-> <<Req("page", url, page_status(url, inject))>>,
     ok |-> FALSE, soup |-> <<>>]
  ELSE
    [visited |-> visited_urls \cup {url},
     reqs |-> <<Req("page", url, 200),
                Req("asset", Url(<<"/", "assets", "/", "logo", ".png">>), 200)>>,
     ok |-> TRUE, soup |-> Site[url]]

\* Reflow.download_page: the requests it makes and the document it returns
download_page(url, inject) ==
  IF url \in visited_urls
  THEN [visited |-> visited_urls, reqs |-> <<>>, ok |-> FALSE, soup |-> <<>>]
  ELSE
    LET got(reqs, final, ok) ==
          [visited |-> visited_urls \cup {url}, reqs |-> reqs, ok |-> ok,
           soup |-> IF ok THEN Site[final] ELSE <<>>]
        again(first, url2, st2) ==
          got(<<Req("page", url, first), Req("page", url2, st2)>>, url2, st2 = 200)
        tried(first) ==
          IF first = 404 /\ endswith(url, ".html")
          THEN again(first, Front(url), page_status(Front(url), inject))
          ELSE got(<<Req("page", url, first)>>, url, first = 200)
    IN  tried(page_status(url, inject))

\* position of collection id in the insertion-ordered mapping m, 0 if absent
RECURSIVE key_index(_, _)
key_index(m, id) ==
  IF Len(m) = 0 THEN 0
  ELSE IF Last(m).id = id THEN Len(m)
  ELSE key_index(Front(m), id)

\* Reflow.detect_cms_collections
RECURSIVE detect_cms_collections(_, _, _, _)
detect_cms_collections(soup, url, pages, cms) ==
  IF ~cms \/ Len(soup) = 0 THEN pages
  ELSE
    LET e     == soup[1]
        k     == key_index(pages, e.coll)
        have  == IF k = 0 THEN Append(pages, [id |-> e.coll, items |-> <<>>])
                 ELSE pages
        kk    == IF k = 0 THEN Len(have) ELSE k
        added == IF e.slug # ""
                 THEN [have EXCEPT ![kk].items =
                         Append(@, [url |-> url, slug |-> e.slug])]
                 ELSE have
    IN  detect_cms_collections(Tail(soup), url,
                               IF e.coll # "" THEN added ELSE pages, cms)

\* Reflow.extract_cms_paths: the inner loop over the other items
RECURSIVE siblings(_, _, _)
siblings(others, slug, collection_path) ==
  IF Len(others) = 0 THEN <<>>
  ELSE
    LET other_slug == others[1].slug
        other_url  == base_url \o collection_path \o <<"/", other_slug>>
        output     == join(join(join(working_dir, lstrip(collection_path, "/")),
                                <<other_slug>>), <<"index", ".html">>)
    IN  (IF other_slug # slug
         THEN <<[url |-> other_url, out |-> output]>> ELSE <<>>)
        \o siblings(Tail(others), slug, collection_path)

\* the slug is left on the item's path
collection_path_unstripped(item) == urlparse_path(item.url)

\* Reflow.extract_cms_paths: the collection path taken from an item's URL
collection_path_of(item) ==
  LET path == urlparse_path(item.url)
  IN  IF Len(path) >= 2 /\ SubSeq(path, Len(path) - 1, Len(path)) = <<"/", item.slug>>
      THEN SubSeq(path, 1, Len(path) - 2)
      ELSE path

RECURSIVE paths_of_items(_, _)
paths_of_items(todo, items) ==
  IF Len(todo) = 0 THEN <<>>
  ELSE siblings(items, todo[1].slug, collection_path_of(todo[1]))
         \o paths_of_items(Tail(todo), items)

\* Reflow.extract_cms_paths
RECURSIVE extract_cms_paths(_, _)
extract_cms_paths(pages, cms) ==
  IF ~cms \/ Len(pages) = 0 THEN <<>>
  ELSE paths_of_items(pages[1].items, pages[1].items)
         \o extract_cms_paths(Tail(pages), cms)

\* Reflow.crawl_site: os.path.basename(path) or path.strip('/')
crawl_filename(path) ==
  LET named(filename) == IF filename # <<>> THEN filename
                         ELSE lstrip(rstrip(path, "/"), "/")
  IN  named(basename(path))

\* Reflow.crawl_site: the crawl target of one href of the processed homepage
crawl_target(href) ==
  LET target(absolute_url, path, stripped) ==
        [skip |-> startswith(href, "#") \/ startswith(href, "mailto:")
                    \/ startswith(href, "tel:")
                    \/ urlparse_netloc(absolute_url) # domain
                    \/ path = <<"/">>,
         url  |-> urljoin(base_url, stripped),
         out  |-> join(working_dir, crawl_filename(stripped) \o <<".html">>)]
      parsed(absolute_url, path) ==
        target(absolute_url, path, rstrip(cut_suffix(path, ".html"), "/"))
      joined(absolute_url) == parsed(absolute_url, or_root(urlparse_path(absolute_url)))
  IN  joined(urljoin(base_url, href))

\* Reflow.crawl_site: links_to_crawl, from the processed homepage
RECURSIVE find_links(_)
find_links(soup) ==
  IF Len(soup) = 0 THEN <<>>
  ELSE LET link(t) == IF soup[1].tag = "a" /\ ~t.skip
                       THEN <<[url |-> t.url, out |-> t.out]>> ELSE <<>>
       IN  link(crawl_target(soup[1].val)) \o find_links(Tail(soup))


\* the network fails a request only while it has failures left
MayFail(inject) == inject => failures < MaxFailures

Failed(reqs) == Cardinality({i \in 1..Len(reqs) : reqs[i].status = 500})

\* open(output_path, 'w') raises OSError only while the run has failures
\* left, and not in a step whose request the network fails
DiskMayFail(inject, oserror) == oserror => (~inject /\ failures < MaxFailures)

\* every page is scanned for collection records
scanned_always(phase) == TRUE

\* Reflow.crawl_site: detect_cms_collections is called on the homepage and
\* in the loop over links_to_crawl, and not in the loop over cms_paths
scanned(phase) == phase # "cms"

\* Reflow.crawl_site: fetch one page, rewrite it and write it; the homepage
\* and the linked pages are scanned for collections, and the links of the
\* processed homepage become links_to_crawl
ReflowPage(item, phase, inject, oserror) ==
  LET Written(dl, r) ==
        /\ assets_to_download' = assets_to_download \cup r.tasks
        /\ files' = (item.out :> PageFile(item.url, r.soup)) @@ files
        /\ wlog' = Append(wlog, Wrote(item.out, item.url))
        /\ cms_pages' = IF scanned(phase)
                        THEN detect_cms_collections(r.soup, item.url, cms_pages,
                                                    process_cms)
                        ELSE cms_pages
        /\ links_to_crawl' = IF phase = "seed" THEN find_links(r.soup)
                             ELSE IF phase = "links" THEN Tail(links_to_crawl)
                             ELSE links_to_crawl
        /\ pc' = IF phase = "seed" THEN "links" ELSE pc
        /\ UNCHANGED outcome
      Missed ==
        /\ links_to_crawl' = IF phase = "links" THEN Tail(links_to_crawl)
                             ELSE links_to_crawl
        /\ pc' = IF phase = "seed" THEN "done" ELSE pc
        /\ outcome' = IF phase = "seed" THEN "seed_failed" ELSE outcome
        /\ UNCHANGED <<assets_to_download, files, wlog, cms_pages>>
      Aborted(r) ==
        /\ assets_to_download' = assets_to_download \cup r.tasks
        /\ files' = IF create_zip THEN <<>> ELSE files
        /\ pc' = "done"
        /\ outcome' = "write_error"
        /\ UNCHANGED <<wlog, cms_pages, links_to_crawl>>
      Fetched(dl) ==
        /\ visited_urls' = dl.visited
        /\ net' = net \o dl.reqs
        /\ failures' = failures + Failed(dl.reqs) + (IF oserror THEN 1 ELSE 0)
        /\ oserror => dl.ok
        /\ IF dl.ok /\ oserror
           THEN Aborted(process_html(dl.soup, item.url, item.out, process_css))
           ELSE IF dl.ok
           THEN Written(dl, process_html(dl.soup, item.url, item.out, process_css))
           ELSE Missed
  IN  /\ MayFail(inject) /\ DiskMayFail(inject, oserror)
      /\ Fetched(download_page(item.url, inject))
      /\ cms_paths' = IF phase = "cms" /\ ~oserror THEN Tail(cms_paths) ELSE cms_paths
      /\ UNCHANGED <<config_vars, cms_collections,
                     urls_to_crawl, pool_vars>>

\* Reflow.crawl_site: the homepage
ReflowSeed ==
  /\ engine = "reflow" /\ pc = "start"
  /\ \E inject, oserror \in BOOLEAN :
       ReflowPage([url |-> base_url,
                   out |-> join(working_dir, <<"index", ".html">>)],
                  "seed", inject, oserror)

\* Reflow.crawl_site: one iteration of "for url, output_path in links_to_crawl"
ReflowLink ==
  /\ engine = "reflow" /\ pc = "links" /\ links_to_crawl # <<>>
  /\ \E inject, oserror \in BOOLEAN :
       ReflowPage(Head(links_to_crawl), "links", inject, oserror)

\* Reflow.crawl_site: "if self.process_cms: cms_paths = self.extract_cms_paths()"
ReflowExtract ==
  /\ engine = "reflow" /\ pc = "links" /\ links_to_crawl = <<>>
  /\ cms_paths' = extract_cms_paths(cms_pages, process_cms)
  /\ pc' = "cms"
  /\ UNCHANGED <<config_vars, outcome, visited_urls,
                 assets_to_download, cms_pages, cms_collections, links_to_crawl,
                 urls_to_crawl, files, net, wlog, failures, pool_vars>>

\* Reflow.crawl_site: one iteration of "for url, cms_path in cms_paths"
ReflowCms ==
  /\ engine = "reflow" /\ pc = "cms" /\ cms_paths # <<>>
  /\ \E inject, oserror \in BOOLEAN :
       ReflowPage(Head(cms_paths), "cms", inject, oserror)


(***************************************************************************)
(* The asset download pool (both engines):                                 *)
(*   with ThreadPoolExecutor(max_workers=...) as executor:                 *)
(*       executor.map(self.download_asset, self.assets_to_download)        *)
(* map() iterates the task set in the calling thread and submits one call  *)
(* per element; the worker threads run the calls already submitted while   *)
(* the iteration goes on; leaving the with block waits for every call.     *)
(***************************************************************************)
Idle == [st |-> "idle", task |-> [url |-> <<>>, path |-> <<>>]]

Done(task, res) == [task |-> task, res |-> res]

in_pool == pc \in {"pool", "pool_wait", "pool_raised"}

\* Reflow.crawl_site: "if self.assets_to_download:" and the start of map()
ReflowStartPool ==
  /\ engine = "reflow" /\ pc = "cms" /\ cms_paths = <<>>
  /\ IF assets_to_download # {}
     THEN /\ pc' = "pool"
          /\ pending' = assets_to_download
          /\ iter_size' = Cardinality(assets_to_download)
     ELSE /\ pc' = "post"
          /\ UNCHANGED <<pending, iter_size>>
  /\ UNCHANGED <<config_vars, outcome, crawl_vars, files,
                 net, wlog, failures, queue, workers, results>>

\* map(): the set iterator yields one more task, which is submitted
PoolSubmit ==
  /\ pc = "pool" /\ pending # {}
  /\ Cardinality(assets_to_download) = iter_size
  /\ \E t \in pending :
       /\ queue' = Append(queue, t)
       /\ pending' = pending \ {t}
  /\ UNCHANGED <<config_vars, pc, outcome, crawl_vars,
                 files, net, wlog, failures, iter_size, workers, results>>

\* map(): the set iterator is exhausted
PoolIterEnd ==
  /\ pc = "pool" /\ pending = {}
  /\ Cardinality(assets_to_download) = iter_size
  /\ pc' = "pool_wait"
  /\ UNCHANGED <<config_vars, outcome, crawl_vars, files,
                 net, wlog, failures, pool_vars>>

\* map(): the set iterator finds the set's size changed and raises
\* RuntimeError in the calling thread
PoolRaise ==
  /\ pc = "pool"
  /\ Cardinality(assets_to_download) # iter_size
  /\ pc' = "pool_raised"
  /\ UNCHANGED <<config_vars, outcome, crawl_vars, files,
                 net, wlog, failures, pool_vars>>

\* the full path of a task's file
full_path(task) ==
  IF engine = "reflow" THEN join(working_dir, task.path) ELSE task.path

\* a worker thread takes the next call from the queue and runs
\* download_asset up to its GET
WorkerTake(w) ==
  /\ in_pool /\ workers[w].st = "idle" /\ queue # <<>>
  /\ queue' = Tail(queue)
  /\ LET t == Head(queue)
     IN  IF engine = "reflow" /\ exists(full_path(t))
         THEN /\ results' = Append(results, Done(t, "exists"))
              /\ UNCHANGED workers
         ELSE /\ workers' = [workers EXCEPT ![w] = [st |-> "get", task |-> t]]
              /\ UNCHANGED results
  /\ UNCHANGED <<config_vars, pc, outcome, crawl_vars,
                 files, net, wlog, failures, iter_size, pending>>

\* Reflow.download_asset after a successful GET: the file is written; a
\* stylesheet is then handed to self.process_css, which is the attribute
\* set in __init__ and not the method, so the call raises TypeError; a
\* script under js/ is passed through process_javascript
ReflowStore(t) ==
  LET is_css == /\ process_css
                /\ SubSeq(t.path, 1, 2) = <<"css", "/">>
                /\ endswith(t.path, ".css")
      is_js  == /\ SubSeq(t.path, 1, 2) = <<"js", "/">>
                /\ endswith(t.path, ".js")
      raw    == AssetFile(t.url, IF t.url \in DOMAIN CssBody THEN CssBody[t.url]
                                 ELSE <<"raw">>)
  IN  [files |-> (full_path(t) :>
                    IF ~is_css /\ is_js THEN AssetFile(t.url, <<"js">>) ELSE raw)
                 @@ files,
       wlog  |-> <<Wrote(full_path(t), t.url)>>
                   \o (IF ~is_css /\ is_js THEN <<Wrote(full_path(t), t.url)>>
                       ELSE <<>>),
       tasks |-> {},
       res   |-> IF is_css THEN "error" ELSE "ok"]


(***************************************************************************)
(* The stylesheet rewriters.  A stylesheet is the sequence of its url(...) *)
(* references.                                                             *)
(***************************************************************************)
css_skipped(ref) == startswith(ref, "data:") \/ Contains(ref, "${") \/ Contains(ref, "$(")

\* Reflow.process_css, the method (reflow.py line 416)
RECURSIVE process_css_method(_, _, _)
process_css_method(css_content, base, css_path) ==
  IF Len(css_content) = 0 THEN [css |-> <<>>, tasks |-> {}]
  ELSE
    LET both(ref, task, rest) ==
          [css |-> <<ref>> \o rest.css, tasks |-> task \cup rest.tasks]
        local(a, rest) == both(a.ref, {a.task}, rest)
        one(ref, rest) ==
          IF css_skipped(ref) THEN both(ref, {}, rest)
          ELSE local(asset_ref(ref, base, "images", rel_path_to_root(css_path)),
                     rest)
    IN  one(css_content[1], process_css_method(Tail(css_content), base, css_path))

\* WebflowExporter.process_css_file
RECURSIVE process_css_file(_, _, _)
process_css_file(css_content, base, css_path) ==
  IF Len(css_content) = 0 THEN [css |-> <<>>, tasks |-> {}]
  ELSE
    LET both(ref, task, rest) ==
          [css |-> <<ref>> \o rest.css, tasks |-> task \cup rest.tasks]
        local(abs_url, local_path, rest) ==
          both(relpath(local_path, dirname(css_path)),
               {[url |-> abs_url, path |-> local_path]}, rest)
        resolved(abs_url, rest) ==
          local(abs_url, join(working_dir, lstrip(urlparse_path(abs_url), "/")),
                rest)
        one(ref, rest) ==
          IF startswith(ref, "data:") THEN both(ref, {}, rest)
          ELSE resolved(urljoin(base, ref), rest)
    IN  one(css_content[1], process_css_file(Tail(css_content), base, css_path))

(***************************************************************************)
(* WebflowExporter (webflow_exporter.py): the document rewriter            *)
(***************************************************************************)
\* WebflowExporter.process_html: os.path.join('/' if rel_dir else '', p)
wf_local_ref(rel_dir, p) == join(IF rel_dir # <<>> THEN <<"/">> ELSE <<>>, p)

\* WebflowExporter.process_html: the rewritten href of an <a>
wf_link_href(href, base, rel_dir) ==
  IF href = <<>> \/ startswith(href, "javascript:") \/ startswith(href, "#")
  THEN href
  ELSE
    LET local(path) ==
          IF path = <<"/">> THEN wf_local_ref(rel_dir, <<"index", ".html">>)
          ELSE wf_local_ref(rel_dir,
                            lstrip(add_suffix(cut_suffix(path, "/"), ".html"), "/"))
        resolved(abs_url) ==
          IF urlparse_netloc(abs_url) # domain THEN href
          ELSE local(urlparse_path(abs_url))
    IN  resolved(urljoin(base, href))

\* WebflowExporter.process_html on one element
wf_process_element(e, base, rel_dir) ==
  LET same == [el |-> e, tasks |-> {}]
      local(abs_url, path) ==
        [el    |-> [e EXCEPT !.val = wf_local_ref(rel_dir, path)],
         tasks |-> {[url |-> abs_url, path |-> join(working_dir, path)]}]
      resolved(abs_url) == local(abs_url, lstrip(urlparse_path(abs_url), "/"))
      asset == resolved(urljoin(base, e.val))
  IN  CASE e.tag = "a"      -> [same EXCEPT !.el.val = wf_link_href(e.val, base, rel_dir)]
        [] e.tag = "img"    -> IF startswith(e.val, "data:") THEN same ELSE asset
        [] e.tag = "css"    -> asset
        [] e.tag = "script" -> IF Len(e.val) >= 1 /\ e.val[1] \in Origins
                                  /\ Netloc[e.val[1]] # domain
                               THEN same ELSE asset
        [] e.tag = "style"  -> IF startswith(e.val, "data:") THEN same ELSE asset
        [] e.tag = "icon"   -> asset
        [] OTHER            -> same

\* WebflowExporter.process_html
RECURSIVE wf_process_html(_, _, _)
wf_process_html(soup, base, output_path) ==
  IF Len(soup) = 0 THEN [soup |-> <<>>, tasks |-> {}]
  ELSE LET both(r, rest) ==
             [soup |-> <<r.el>> \o rest.soup, tasks |-> r.tasks \cup rest.tasks]
       IN  both(wf_process_element(soup[1], base,
                                   dirname(relpath(output_path, working_dir))),
                wf_process_html(Tail(soup), base, output_path))

\* WebflowExporter.download_asset after a successful GET: the file is
\* written; a stylesheet is read back, rewritten by process_css_file, which
\* registers the tasks it finds, and written again
WebflowStore(t) ==
  LET stored(body, again, tasks) ==
        [files |-> (t.path :> AssetFile(t.url, body)) @@ files,
         wlog  |-> <<Wrote(t.path, t.url)>>
                     \o (IF again THEN <<Wrote(t.path, t.url)>> ELSE <<>>),
         tasks |-> tasks,
         res   |-> "ok"]
      rewritten(r) == stored(r.css, TRUE, r.tasks)
      fetched(body) ==
        IF endswith(t.path, ".css") /\ process_css
        THEN rewritten(process_css_file(body, t.url, t.path))
        ELSE stored(body, FALSE, {})
  IN  fetched(IF t.url \in DOMAIN CssBody THEN CssBody[t.url] ELSE <<"raw">>)

\* the error leaves download_asset and the pool
Uncaught(t) ==
  /\ results' = Append(results, Done(t, "failed"))
  /\ pc' = "pool_raised"
  /\ UNCHANGED <<files, wlog, assets_to_download>>

\* download_asset's "except Exception": the error is logged and the call
\* returns
Caught(t) ==
  /\ results' = Append(results, Done(t, "failed"))
  /\ UNCHANGED <<files, wlog, assets_to_download, pc>>

\* download_asset from its GET to its return: a failed GET and an
\* exception of the post-processing are caught and logged
WorkerDownload(w) ==
  /\ in_pool /\ workers[w].st = "get"
  /\ \E inject \in BOOLEAN :
       /\ MayFail(inject)
       /\ LET Stored(t, st) ==
                /\ files' = st.files
                /\ wlog' = wlog \o st.wlog
                /\ assets_to_download' = assets_to_download \cup st.tasks
                /\ results' = Append(results, Done(t, st.res))
                /\ UNCHANGED pc
              Got(t, status) ==
                /\ net' = Append(net, Req("asset", t.url, status))
                /\ failures' = failures + (IF status = 500 THEN 1 ELSE 0)
                /\ IF status = 200
                   THEN Stored(t, IF engine = "reflow" THEN ReflowStore(t)
                                  ELSE WebflowStore(t))
                   ELSE Caught(t)
          IN  Got(workers[w].task, asset_status(workers[w].task.url, inject))
  /\ workers' = [workers EXCEPT ![w] = Idle]
  /\ UNCHANGED <<config_vars, outcome, visited_urls, cms_pages, cms_collections,
                 links_to_crawl, cms_paths, urls_to_crawl, iter_size, pending,
                 queue>>

\* the with block is left without waiting for the calls
PoolJoin_without_wait ==
  /\ pc \in {"pool_wait", "pool_raised"}
  /\ IF pc = "pool_wait"
     THEN pc' = "post" /\ UNCHANGED outcome
     ELSE pc' = "done" /\ outcome' = "raised"
  /\ UNCHANGED <<config_vars, crawl_vars, files, net,
                 wlog, failures, pool_vars>>

\* leaving the with block: every submitted call has returned; a
\* RuntimeError of the iteration then leaves crawl_site
PoolJoin ==
  /\ pc \in {"pool_wait", "pool_raised"}
  /\ queue = <<>> /\ \A w \in Workers : workers[w].st = "idle"
  /\ IF pc = "pool_wait"
     THEN pc' = "post" /\ UNCHANGED outcome
     ELSE pc' = "done" /\ outcome' = "raised"
  /\ UNCHANGED <<config_vars, crawl_vars, files, net,
                 wlog, failures, pool_vars>>


(***************************************************************************)
(* WebflowExporter (webflow_exporter.py): pages                            *)
(***************************************************************************)
\* the fetched URL is not recorded in visited_urls
wf_download_page_forgetful(url, inject) ==
  LET status == page_status(cut_suffix(url, ".html"), inject)
  IN  [visited |-> visited_urls,
       reqs    |-> <<Req("page", cut_suffix(url, ".html"), status)>>,
       ok      |-> status = 200,
       soup    |-> IF status = 200 THEN Site[cut_suffix(url, ".html")] ELSE <<>>]

\* WebflowExporter.download_page
wf_download_page(url, inject) ==
  IF url \in visited_urls
  THEN [visited |-> visited_urls, reqs |-> <<>>, ok |-> FALSE, soup |-> <<>>]
  ELSE
    LET got(visited, reqs, ok, final) ==
          [visited |-> visited, reqs |-> reqs, ok |-> ok,
           soup |-> IF ok THEN Site[final] ELSE <<>>]
        again(original_url, short, st1, st2) ==
          got(IF st2 = 200 THEN visited_urls \cup {original_url} ELSE visited_urls,
              <<Req("page", short, st1), Req("page", original_url, st2)>>,
              st2 = 200, original_url)
        tried(original_url, short, st1) ==
          IF st1 = 200
          THEN got(visited_urls \cup {short, original_url},
                   <<Req("page", short, st1)>>, TRUE, short)
          ELSE IF short # original_url
          THEN again(original_url, short, st1, page_status(original_url, inject))
          ELSE got(visited_urls, <<Req("page", short, st1)>>, FALSE, short)
        stripped(original_url, short) ==
          tried(original_url, short, page_status(short, inject))
    IN  stripped(url, cut_suffix(url, ".html"))

\* WebflowExporter.crawl_site: the output path of a queued URL (main loop)
wf_output_path(url) ==
  LET p0      == urlparse_path(url)
      noslash == IF endswith(p0, "/") THEN Front(p0) ELSE p0
      path    == IF endswith(noslash, ".html") THEN Front(noslash) ELSE noslash
  IN  IF p0 = <<"/">> \/ p0 = <<"/", "index", ".html">> \/ path = <<>>
      THEN join(working_dir, <<"index", ".html">>)
      ELSE join(working_dir, lstrip(path \o <<".html">>, "/"))

\* WebflowExporter.crawl_site: the output path of a CMS URL (CMS loop)
wf_cms_output_path(url) ==
  LET p0      == urlparse_path(url)
      noslash == IF endswith(p0, "/") THEN Front(p0) ELSE p0
      path    == IF endswith(noslash, ".html") THEN Front(noslash) ELSE noslash
  IN  IF p0 = <<"/">> THEN join(working_dir, <<"index", ".html">>)
      ELSE join(working_dir, lstrip(path \o <<".html">>, "/"))

wf_skipped(href) ==
  href = <<>> \/ startswith(href, "javascript:") \/ startswith(href, "#")

\* WebflowExporter.crawl_site: the URLs a processed page adds to the queue
RECURSIVE wf_find_links(_, _, _)
wf_find_links(soup, url, visited) ==
  IF Len(soup) = 0 THEN <<>>
  ELSE
    LET queued(abs_url) ==
          IF soup[1].tag = "a" /\ ~wf_skipped(soup[1].val) /\ abs_url \notin visited
          THEN <<cut_suffix(abs_url, ".html")>> ELSE <<>>
    IN  queued(urljoin(url, soup[1].val)) \o wf_find_links(Tail(soup), url, visited)

\* WebflowExporter.detect_cms_collections: the links of the items of the
\* collection lists of a page, into cms_collections
RECURSIVE wf_detect_cms_collections(_, _, _, _)
wf_detect_cms_collections(soup, url, colls, seen) ==
  IF Len(soup) = 0 THEN colls
  ELSE
    LET added(e, paged, kk, item) ==
          IF /\ ~wf_skipped(e.val)
             /\ urlparse_netloc(item.url) = domain
             /\ \A i \in 1..Len(paged[kk].items) : paged[kk].items[i] # item
          THEN [paged EXCEPT ![kk].items = Append(@, item)]
          ELSE paged
        parsed(e, paged, kk, abs_url, path) ==
          added(e, paged, kk,
                [url |-> abs_url, slug |-> Last(<<(<<>>)>> \o nonempty(split(path))),
                 path |-> path])
        linked(e, paged, kk, abs_url) ==
          parsed(e, paged, kk, abs_url, urlparse_path(abs_url))
        listed(e, have, kk) ==
          linked(e, IF e.coll \in seen THEN have
                    ELSE [have EXCEPT ![kk].pages = Append(@, url)],
                 kk, urljoin(url, e.val))
        keyed(e, k) ==
          IF k = 0
          THEN listed(e, Append(colls, [id |-> e.coll, items |-> <<>>,
                                        pages |-> <<>>]), Len(colls) + 1)
          ELSE listed(e, colls, k)
        one(e) ==
          IF e.tag = "a" /\ e.coll # ""
          THEN wf_detect_cms_collections(Tail(soup), url,
                                         keyed(e, key_index(colls, e.coll)),
                                         seen \cup {e.coll})
          ELSE wf_detect_cms_collections(Tail(soup), url, colls, seen)
    IN  one(soup[1])

\* WebflowExporter.detect_cms_collections: self.cms_pages[abs_url] = ...
RECURSIVE wf_cms_pages(_)
wf_cms_pages(colls) ==
  IF Len(colls) = 0 THEN <<>>
  ELSE [i \in 1..Len(colls[1].items) |->
          [id |-> colls[1].items[i].url,
           items |-> <<[url |-> colls[1].id, slug |-> colls[1].items[i].slug]>>]]
       \o wf_cms_pages(Tail(colls))

\* WebflowExporter.extract_cms_paths
RECURSIVE wf_extract_cms_paths(_)
wf_extract_cms_paths(colls) ==
  IF Len(colls) = 0 THEN <<>>
  ELSE [i \in 1..Len(colls[1].items) |-> colls[1].items[i].url]
       \o wf_extract_cms_paths(Tail(colls))

\* WebflowExporter.crawl_site: fetch one page, rewrite it and write it; in
\* the main loop the page is scanned for collections and its links are
\* queued
WebflowPage(url, out, main, inject, oserror) ==
  LET Scanned(r, visited, colls) ==
        /\ cms_collections' = colls
        /\ cms_pages' = wf_cms_pages(colls)
        /\ urls_to_crawl' = Tail(urls_to_crawl) \o wf_find_links(r.soup, url, visited)
      Written(r, visited) ==
        /\ assets_to_download' = assets_to_download \cup r.tasks
        /\ files' = (out :> PageFile(url, r.soup)) @@ files
        /\ wlog' = Append(wlog, Wrote(out, url))
        /\ IF main
           THEN Scanned(r, visited,
                        wf_detect_cms_collections(r.soup, url, cms_collections, {}))
           ELSE UNCHANGED <<cms_collections, cms_pages, urls_to_crawl>>
        /\ UNCHANGED <<pc, outcome>>
      Missed ==
        /\ urls_to_crawl' = IF main THEN Tail(urls_to_crawl) ELSE urls_to_crawl
        /\ UNCHANGED <<assets_to_download, files, wlog, cms_collections, cms_pages,
                       pc, outcome>>
      Aborted(r) ==
        /\ assets_to_download' = assets_to_download \cup r.tasks
        /\ urls_to_crawl' = IF main THEN Tail(urls_to_crawl) ELSE urls_to_crawl
        /\ pc' = "done"
        /\ outcome' = "write_error"
        /\ UNCHANGED <<files, wlog, cms_collections, cms_pages>>
      Fetched(dl) ==
        /\ visited_urls' = dl.visited
        /\ net' = net \o dl.reqs
        /\ failures' = failures + Failed(dl.reqs) + (IF oserror THEN 1 ELSE 0)
        /\ oserror => dl.ok
        /\ IF dl.ok /\ oserror THEN Aborted(wf_process_html(dl.soup, url, out))
           ELSE IF dl.ok THEN Written(wf_process_html(dl.soup, url, out), dl.visited)
           ELSE Missed
      Skipped ==
        /\ urls_to_crawl' = IF main THEN Tail(urls_to_crawl) ELSE urls_to_crawl
        /\ UNCHANGED <<visited_urls, assets_to_download, cms_pages, cms_collections,
                       files, net, wlog, failures, pc, outcome>>
  IN  /\ IF url \in visited_urls \/ urlparse_netloc(url) # domain
         THEN ~inject /\ ~oserror /\ Skipped
         ELSE /\ MayFail(inject) /\ DiskMayFail(inject, oserror)
              /\ Fetched(wf_download_page(url, inject))
      /\ cms_paths' = IF main \/ oserror THEN cms_paths ELSE Tail(cms_paths)
      /\ UNCHANGED <<config_vars, links_to_crawl, pool_vars>>

\* WebflowExporter.crawl_site: one iteration of "while urls_to_crawl"
WebflowPop ==
  /\ engine = "webflow" /\ pc = "crawl" /\ urls_to_crawl # <<>>
  /\ \E inject, oserror \in BOOLEAN :
       WebflowPage(Head(urls_to_crawl), wf_output_path(Head(urls_to_crawl)),
                   TRUE, inject, oserror)

\* WebflowExporter.crawl_site: "if self.follow_cms: cms_urls = ..."
WebflowExtract ==
  /\ engine = "webflow" /\ pc = "crawl" /\ urls_to_crawl = <<>>
  /\ cms_paths' = IF process_cms THEN wf_extract_cms_paths(cms_collections)
                  ELSE <<>>
  /\ pc' = "cms"
  /\ UNCHANGED <<config_vars, outcome, visited_urls,
                 assets_to_download, cms_pages, cms_collections, links_to_crawl,
                 urls_to_crawl, files, net, wlog, failures, pool_vars>>

\* WebflowExporter.crawl_site: one iteration of "for url in cms_urls"
WebflowCms ==
  /\ engine = "webflow" /\ pc = "cms" /\ cms_paths # <<>>
  /\ \E inject, oserror \in BOOLEAN :
       WebflowPage(Head(cms_paths), wf_cms_output_path(Head(cms_paths)),
                   FALSE, inject, oserror)

JsonFile == [kind |-> "json", url |-> <<>>, body |-> <<>>]

cms_pages_json == join(working_dir, <<"cms_pages", ".json">>)

cms_collections_json == join(working_dir, <<"cms_collections", ".json">>)

\* WebflowExporter.crawl_site: the CMS data is saved, then map() starts
WebflowStartPool ==
  /\ engine = "webflow" /\ pc = "cms" /\ cms_paths = <<>>
  /\ files' = (cms_pages_json :> JsonFile) @@ (cms_collections_json :> JsonFile)
                @@ files
  /\ wlog' = wlog \o <<Wrote(cms_pages_json, <<>>), Wrote(cms_collections_json, <<>>)>>
  /\ pc' = "pool"
  /\ pending' = assets_to_download
  /\ iter_size' = Cardinality(assets_to_download)
  /\ UNCHANGED <<config_vars, outcome, crawl_vars, net,
                 failures, queue, workers, results>>

\* Reflow.crawl_site after the pool: the CMS data is saved and the run ends
ReflowFinish ==
  /\ engine = "reflow" /\ pc = "post"
  /\ LET f1 == IF process_cms /\ cms_pages # <<>>
               THEN (cms_pages_json :> JsonFile) ELSE <<>>
         f2 == IF process_cms /\ cms_collections # <<>>
               THEN (cms_collections_json :> JsonFile) ELSE <<>>
     IN  /\ files' = f1 @@ f2 @@ files
         /\ wlog' = wlog
                     \o (IF f1 # <<>> THEN <<Wrote(cms_pages_json, <<>>)>> ELSE <<>>)
                     \o (IF f2 # <<>> THEN <<Wrote(cms_collections_json, <<>>)>> ELSE <<>>)
  /\ pc' = "done"
  /\ outcome' = "complete"
  /\ UNCHANGED <<config_vars, crawl_vars, net, failures,
                 pool_vars>>

\* WebflowExporter.crawl_site after the pool: the run ends
WebflowFinish ==
  /\ engine = "webflow" /\ pc = "post"
  /\ pc' = "done"
  /\ outcome' = "complete"
  /\ UNCHANGED <<config_vars, crawl_vars, files, net, wlog,
                 failures, pool_vars>>

(***************************************************************************)
(* The runs                                                                *)
(***************************************************************************)
\* how the exporter is constructed and what the output directory holds
Configs ==
  { [engine |-> e, cms |-> c.cms, css |-> c.css, old |-> c.old] :
      e \in {"reflow", "webflow"},
      c \in { [cms |-> TRUE,  css |-> TRUE,  old |-> FALSE],
              [cms |-> TRUE,  css |-> FALSE, old |-> TRUE],
              [cms |-> FALSE, css |-> TRUE,  old |-> FALSE] } }

\* files of an earlier run
OldFiles(e) ==
  IF e = "reflow"
  THEN (join(working_dir, <<"images", "/", "logo", ".png">>) :> OldFile)
       @@ (join(working_dir, <<"index", ".html">>) :> OldFile)
  ELSE (join(working_dir, <<"assets", "/", "logo", ".png">>) :> OldFile)
       @@ (join(working_dir, <<"index", ".html">>) :> OldFile)

NoCall == [op |-> "none"]

\* the exporter as constructed for configuration c, before crawl_site runs
Constructed(c) ==
  /\ engine = c.engine
  /\ process_cms = c.cms
  /\ css_option = c.css
  /\ create_zip = ~c.old
  /\ process_css = (IF c.engine = "reflow" THEN ~c.css ELSE c.css)
  /\ pc = (IF c.engine = "reflow" THEN "start" ELSE "crawl")
  /\ outcome = "running"
  /\ visited_urls = {}
  /\ assets_to_download = {}
  /\ cms_pages = <<>>
  /\ cms_collections = <<>>
  /\ links_to_crawl = <<>>
  /\ cms_paths = <<>>
  /\ urls_to_crawl = (IF c.engine = "reflow" THEN <<>> ELSE <<base_url>>)
  /\ files = (IF c.old THEN OldFiles(c.engine) ELSE <<>>)
  /\ net = <<>>
  /\ wlog = <<>>
  /\ failures = 0
  /\ iter_size = 0
  /\ pending = {}
  /\ queue = <<>>
  /\ workers = [w \in Workers |-> Idle]
  /\ results = <<>>
  /\ call = NoCall

Init == \E c \in Configs : Constructed(c)

Next ==
  \/ ReflowSeed
  \/ ReflowLink
  \/ ReflowExtract
  \/ ReflowCms
  \/ ReflowStartPool
  \/ ReflowFinish
  \/ WebflowPop
  \/ WebflowExtract
  \/ WebflowCms
  \/ WebflowStartPool
  \/ WebflowFinish
  \/ PoolSubmit
  \/ PoolIterEnd
  \/ PoolRaise
  \/ PoolJoin
  \/ \E w \in Workers : WorkerTake(w)
  \/ \E w \in Workers : WorkerDownload(w)

Spec == Init /\ [][Next]_vars

\* WebflowExporter.crawl_site: the condition of "while urls_to_crawl"
FrontierBusy == engine = "webflow" /\ pc = "crawl" /\ urls_to_crawl # <<>>

\* crawl_site runs in one thread that is never suspended for good: while
\* the loop condition holds another iteration is run, and once it fails the
\* statement after the loop is run.  The first conjunct is
\* WF_vars(WebflowPop) with ENABLED <<WebflowPop>>_vars written out as the
\* loop condition, which is when an iteration can be run.
FairSpec ==
  /\ Spec
  /\ ([]<>(~FrontierBusy) \/ []<><<WebflowPop>>_vars)
  /\ WF_vars(WebflowExtract)


(***************************************************************************)
(* The rewriters on their own: each call applies one rewriter to inputs    *)
(* drawn from small sets and records what it returned.                     *)
(***************************************************************************)
run_vars == <<engine, process_cms, process_css, css_option, create_zip, pc, outcome, crawl_vars, files,
              net, wlog, failures, pool_vars>>

\* hrefs of <a> elements
Hrefs ==
  { <<"/", "about">>, <<"/", "about", "/">>, <<"/", "about", ".html">>, <<"/">>,
    <<"/", "index", ".html">>, <<"/", "blog", "/", "post-a">>, <<"#", "top">>,
    <<"mailto:", "info">>, <<"tel:", "123">>, <<"javascript:", "void(0)">>,
    <<"https://cdn.io", "/", "docs">>,
    <<"https://x.io", "/", "team">> }

\* asset references
Refs ==
  { <<"/", "assets", "/", "logo", ".png">>,
    <<"/", "assets", "/", "team", "%20", "photo", ".png">>,
    <<"https://x.io", "/", "media", "/", "logo", ".png">>,
    <<"https://cdn.io", "/", "lib", "/", "logo", ".png">> }

Elements ==
  { El("a", h) : h \in Hrefs }
    \cup { El(t, r) : t \in {"img", "css", "script", "style", "icon"}, r \in Refs }

\* documents: one element, or a page of the site
Documents == { <<e>> : e \in Elements } \cup { Site[u] : u \in DOMAIN Site }

\* where the crawl writes pages: the homepage, a page of the link pass, a
\* page with a two-segment path as Reflow's link pass and as WebflowExporter
\* place it, a page of Reflow's CMS pass
Places ==
  { [url |-> base_url, out |-> join(working_dir, <<"index", ".html">>)],
    [url |-> Url(<<"/", "about">>), out |-> join(working_dir, <<"about", ".html">>)],
    [url |-> Url(<<"/", "blog", "/", "post-a">>),
     out |-> join(working_dir, <<"post-a", ".html">>)],
    [url |-> Url(<<"/", "blog", "/", "post-a">>),
     out |-> join(working_dir, <<"blog", "/", "post-a", ".html">>)],
    [url |-> Url(<<"/", "blog", "/", "post-c">>),
     out |-> join(working_dir, <<"blog", "/", "post-c", "/", "index", ".html">>)] }

\* stylesheets: where one is served, where it is saved, its url() references
Stylesheets ==
  { [url |-> Url(<<"/", "css", "/", "site", ".css">>),
     path |-> join(working_dir, <<"css", "/", "site", ".css">>),
     content |-> c] :
      c \in { << <<"..", "/", "img", "/", "a", ".png">> >>,
              << <<"/", "img", "/", "a", ".png">> >>,
              << <<"data:", "x">>, <<"..", "/", "img", "/", "a", ".png">> >> } }

\* Reflow.process_html, process_css: rel_path_to_root of an output path
CallPrefix ==
  /\ call = NoCall
  /\ \E place \in Places \cup { [url |-> sh.url, out |-> sh.path] : sh \in Stylesheets } :
       call' = [op |-> "rel_path_to_root", out |-> place.out,
                result |-> rel_path_to_root(place.out)]
  /\ UNCHANGED run_vars

\* Reflow.process_html applied to a document, and to its own result
CallProcessHtml ==
  /\ call = NoCall
  /\ \E soup \in Documents, place \in Places, css \in BOOLEAN :
       LET again(once) ==
             [op |-> "process_html", soup |-> soup, url |-> place.url,
              out |-> place.out, once |-> once.soup, tasks |-> once.tasks,
              twice |-> process_html(once.soup, place.url, place.out, css).soup]
       IN  call' = again(process_html(soup, place.url, place.out, css))
  /\ UNCHANGED run_vars

\* WebflowExporter.process_html applied to a document, and to its own result
CallWfProcessHtml ==
  /\ call = NoCall
  /\ \E soup \in Documents, place \in Places :
       LET again(once) ==
             [op |-> "wf_process_html", soup |-> soup, url |-> place.url,
              out |-> place.out, once |-> once.soup, tasks |-> once.tasks,
              twice |-> wf_process_html(once.soup, place.url, place.out).soup]
       IN  call' = again(wf_process_html(soup, place.url, place.out))
  /\ UNCHANGED run_vars

\* Reflow.process_css, the method, applied to a stylesheet
CallProcessCss ==
  /\ call = NoCall
  /\ \E sh \in Stylesheets :
       LET done(r) == [op |-> "process_css", sheet |-> sh, css |-> r.css,
                       tasks |-> { [url |-> t.url, path |-> join(working_dir, t.path)] :
                                    t \in r.tasks }]
       IN  call' = done(process_css_method(sh.content, sh.url, sh.path))
  /\ UNCHANGED run_vars

\* WebflowExporter.process_css_file applied to a stylesheet
CallProcessCssFile ==
  /\ call = NoCall
  /\ \E sh \in Stylesheets :
       LET done(r) == [op |-> "process_css_file", sheet |-> sh, css |-> r.css,
                       tasks |-> r.tasks]
       IN  call' = done(process_css_file(sh.content, sh.url, sh.path))
  /\ UNCHANGED run_vars

PureInit ==
  Constructed([engine |-> "reflow", cms |-> TRUE, css |-> TRUE, old |-> FALSE])

PureNext ==
  \/ CallPrefix
  \/ CallProcessHtml
  \/ CallWfProcessHtml
  \/ CallProcessCss
  \/ CallProcessCssFile

PureSpec == PureInit /\ [][PureNext]_vars


(***************************************************************************)
(* Properties                                                              *)
(***************************************************************************)
\* the requests made so far for url, as a page or as an asset
Requests(kind, url) ==
  {i \in 1..Len(net) : net[i].kind = kind /\ net[i].url = url}

\* the writes made so far to path
Writes(path) == {i \in 1..Len(wlog) : wlog[i].path = path}

\* C1: every absolute asset URL has at most one entry in assets_to_download
\* and is requested at most once by the download pool, whatever kinds of
\* element referenced it.
C1_OneTaskPerUrl ==
  /\ \A t1, t2 \in assets_to_download : t1.url = t2.url => t1 = t2
  /\ \A t \in assets_to_download : Cardinality(Requests("asset", t.url)) <= 1

\* the number of directories between the output root and the file at out
depth(out) == Len(split(relpath(out, working_dir))) - 1

\* "../" repeated n times
updirs(n) == [k \in 1..(2 * n) |-> IF k % 2 = 1 THEN ".." ELSE "/"]

\* C2: the prefix computed from an output path is "" at the output root,
\* "../" one directory below it and "../../" two directories below it, and
\* prefix + "images/x" resolved from the file's directory is <root>/images/x.
C2_RootRelativePrefix ==
  call.op = "rel_path_to_root" =>
    /\ call.result = updirs(depth(call.out))
    /\ normpath(join(dirname(call.out), call.result \o <<"images", "/", "x">>))
         = join(working_dir, <<"images", "/", "x">>)

\* C3: applying process_html to its own result changes nothing, for every
\* document, source URL and output path.
C3_RewriteIdempotent ==
  call.op \in {"process_html", "wf_process_html"} => call.twice = call.once


\* the forms of the link to the page /about
AboutForms ==
  { Url(<<"/", "about">>), Url(<<"/", "about", "/">>), Url(<<"/", "about", ".html">>) }

about_html == join(working_dir, <<"about", ".html">>)

RootForms == { base_url, SeedUrl, Url(<<"/", "index", ".html">>), Url(<<"/", "index">>) }

index_html == join(working_dir, <<"index", ".html">>)

\* C5: the root URL forms lead to one visited key and to index.html: the
\* home page is requested once and index.html is written once.
C5_RootOnce ==
  /\ Cardinality({i \in 1..Len(net) :
                    net[i].kind = "page" /\ net[i].url \in RootForms}) <= 1
  /\ Cardinality(Writes(index_html)) <= 1

\* C6: a failed download does not leave the pool: the iteration raises only
\* when the task set changed size, and when the pool is left normally every
\* task of the batch has returned, whatever failed among them.
C6_FailureIsolated ==
  /\ outcome = "raised" => Cardinality(assets_to_download) # iter_size
  /\ (pc = "post" \/ (pc = "done" /\ outcome = "complete")) =>
       Len(results) = iter_size

\* a task failed, a task started after it succeeded, and the crawl went on
C6_Witness ==
  /\ pc = "done" /\ outcome = "complete"
  /\ \E i, j \in 1..Len(results) :
       /\ i < j
       /\ results[i].res \in {"failed", "error"}
       /\ results[j].res = "ok"
  /\ \E i \in 1..Len(net) : net[i].kind = "asset" /\ net[i].status = 500

\* C7: an asset whose file exists when the run starts is neither requested
\* nor modified.
C7_ExistingAssetSkipped ==
  [][\A p \in DOMAIN files :
       (files[p].kind = "old" /\ ~endswith(p, ".html")) =>
         /\ files'[p] = files[p]
         /\ \A w \in Workers :
              workers'[w].st = "get" => full_path(workers'[w].task) # p]_vars


\* the sibling URLs the records of one collection call for: for an item
\* whose URL path ends in /<slug>, <origin><collectionPath>/<otherSlug> for
\* every other slug recorded for the collection
SiblingUrls(items) ==
  { <<O>> \o SubSeq(urlparse_path(items[p[1]].url), 1,
                    Len(urlparse_path(items[p[1]].url)) - 2)
          \o <<"/", items[p[2]].slug>> :
      p \in { q \in (1..Len(items)) \X (1..Len(items)) :
                /\ Len(urlparse_path(items[q[1]].url)) >= 2
                /\ SubSeq(urlparse_path(items[q[1]].url),
                          Len(urlparse_path(items[q[1]].url)) - 1,
                          Len(urlparse_path(items[q[1]].url)))
                     = <<"/", items[q[1]].slug>>
                /\ items[q[2]].slug # items[q[1]].slug } }

\* the two records of the collection blog: post-a seen on /blog/post-a and
\* post-b seen on /blog/post-b
TwoRecords(pages) ==
  \E k \in 1..Len(pages) :
    /\ \E i \in 1..Len(pages[k].items) :
         pages[k].items[i] = [url |-> Url(<<"/", "blog", "/", "post-a">>),
                              slug |-> "post-a"]
    /\ \E i \in 1..Len(pages[k].items) :
         pages[k].items[i] = [url |-> Url(<<"/", "blog", "/", "post-b">>),
                              slug |-> "post-b"]

\* C8: extract_cms_paths synthesizes, for every recorded item whose URL path
\* ends in /<slug>, the sibling URL of every other slug of its collection
\* (https://x.io/blog/post-b from post-a and https://x.io/blog/post-a from
\* post-b), and no synthesized URL is requested more than once.
C8_SiblingsSynthesized ==
  [][/\ (engine = "reflow" /\ process_cms /\ pc = "links" /\ pc' = "cms") =>
          /\ \A k \in 1..Len(cms_pages) :
               SiblingUrls(cms_pages[k].items)
                 \subseteq {cms_paths'[i].url : i \in 1..Len(cms_paths')}
          /\ TwoRecords(cms_pages) =>
               {Url(<<"/", "blog", "/", "post-a">>), Url(<<"/", "blog", "/", "post-b">>)}
                 \subseteq {cms_paths'[i].url : i \in 1..Len(cms_paths')}
     /\ (engine = "reflow" /\ pc = "cms") =>
          \A i \in 1..Len(cms_paths) :
            Cardinality({n \in 1..Len(net') :
                           net'[n].kind = "page" /\ net'[n].url = cms_paths[i].url})
              <= 1]_vars

\* both records were found, the expansion ran, and the page post-c, which
\* it synthesized from post-a and again from post-b, was fetched once
C8_Witness ==
  /\ engine = "reflow" /\ process_cms /\ pc = "post"
  /\ TwoRecords(cms_pages)
  /\ Cardinality(Requests("page", Url(<<"/", "blog", "/", "post-c">>))) = 1
  /\ Cardinality(Requests("page", Url(<<"/", "blog", "/", "post-b">>))) = 1

\* C9: a rewritten url() value, resolved from the directory of the saved
\* stylesheet, is the path at which the asset task of the referenced URL
\* stores its download.
C9_StylesheetRelative ==
  call.op \in {"process_css", "process_css_file"} =>
    \A i \in 1..Len(call.css) :
      ~startswith(call.sheet.content[i], "data:") =>
        \E t \in call.tasks :
          /\ t.url = urljoin(call.sheet.url, call.sheet.content[i])
          /\ t.path = normpath(join(dirname(call.sheet.path), call.css[i]))

\* the page key a hyperlink names
page_key(url) == rstrip(cut_suffix(url, ".html"), "/")

\* the same-origin pages the original document of page u links to
LinkedPages(u) ==
  { page_key(urljoin(u, Site[u][i].val)) :
      i \in {k \in 1..Len(Site[u]) :
               /\ Site[u][k].tag = "a"
               /\ Site[u][k].val # <<>>
               /\ Site[u][k].val[1] \notin OpaqueSchemes \cup {"#"}
               /\ urlparse_netloc(urljoin(u, Site[u][k].val)) = domain} }
    \cap DOMAIN Site

\* the pages reachable from seen through chains of hyperlinks
RECURSIVE Reach(_)
Reach(seen) ==
  LET more == seen \cup UNION {LinkedPages(u) : u \in seen}
  IN  IF more = seen THEN seen ELSE Reach(more)

\* C10: when a run without failed requests has ended, every same-origin
\* page reachable from the seed through hyperlinks has been fetched and
\* written.
C10_FixedPoint ==
  (pc = "done" /\ outcome = "complete" /\ failures = 0) =>
    \A u \in Reach({base_url}) :
      /\ \E i \in 1..Len(net) : net[i] = Req("page", u, 200)
      /\ \E i \in 1..Len(wlog) : wlog[i].url = u

\* C11: no page URL is requested twice in a run, and a page URL whose
\* request failed is in visited_urls afterwards.
C11_NoRefetch ==
  /\ \A i, j \in 1..Len(net) :
       (net[i].kind = "page" /\ net[j].kind = "page" /\ net[i].url = net[j].url)
         => i = j
  /\ \A i \in 1..Len(net) :
       (net[i].kind = "page" /\ net[i].status # 200) => net[i].url \in visited_urls


\* the file name under css/ that Reflow gives the stylesheet referenced as
\* ref from the page at url
css_name(url, ref) ==
  sanitize_filename(basename(lstrip(urlparse_path(urljoin(url, ref)), "/")))

\* the stylesheet links of the page served at url, by position
CssLinks(url) == {i \in 1..Len(Site[url]) : Site[url][i].tag = "css"}

\* C12: in every page Reflow has written, a stylesheet link is, when the
\* exporter was created with process_css=True, rewritten to css/<name> and
\* registered as an asset task, and when it was created with
\* process_css=False, left as the server sent it with no task registered.
C12_CssOptionGates ==
  engine = "reflow" =>
    \A p \in DOMAIN files :
      files[p].kind = "page" =>
        \A i \in CssLinks(files[p].url) :
          LET ref == Site[files[p].url][i].val
              now == files[p].body[i].val
              url == urljoin(files[p].url, ref)
              loc == <<"css", "/">> \o css_name(files[p].url, ref)
          IN  IF css_option
              THEN /\ Len(now) >= Len(loc)
                   /\ SubSeq(now, Len(now) - Len(loc) + 1, Len(now)) = loc
                   /\ [url |-> url, path |-> loc] \in assets_to_download
              ELSE /\ now = ref
                   /\ \A t \in assets_to_download : t.url # url


\* what the engine's stylesheet rewriter returns for the stylesheet of task t
rewritten_css(t) ==
  IF engine = "reflow"
  THEN process_css_method(CssBody[t.url], t.url, full_path(t)).css
  ELSE process_css_file(CssBody[t.url], t.url, full_path(t)).css

\* C13: with CSS processing enabled, a stylesheet task whose download was
\* answered ends as a success and its file holds the output of the
\* stylesheet rewriter.
C13_StylesheetPostProcessed ==
  \A i \in 1..Len(results) :
    (/\ process_css
     /\ endswith(results[i].task.path, ".css")
     /\ results[i].task.url \in DOMAIN CssBody
     /\ results[i].res \in {"ok", "error"})
    => /\ results[i].res = "ok"
       /\ files[full_path(results[i].task)].body = rewritten_css(results[i].task)


\* an href the rewriters are to leave alone: a fragment, a mailto:, tel: or
\* javascript: target, or a target of another origin
left_alone(href) ==
  /\ Len(href) >= 1
  /\ \/ href[1] \in {"#", "mailto:", "tel:", "javascript:"}
     \/ href[1] \in Origins /\ Netloc[href[1]] # domain

\* C14: process_html returns every fragment, mailto:, tel:, javascript: and
\* cross-origin href exactly as it was given.
C14_SkippedLinksUntouched ==
  call.op \in {"process_html", "wf_process_html"} =>
    /\ Len(call.once) = Len(call.soup)
    /\ \A i \in 1..Len(call.soup) :
         (call.soup[i].tag = "a" /\ left_alone(call.soup[i].val))
           => call.once[i].val = call.soup[i].val


\* the fault of this step was not a failed request: the write of the page
\* raised OSError
WriteFailed == failures' = failures + 1 /\ Failed(net') = Failed(net)

\* C15: a step in which the write of a page's document fails leaves
\* crawl_site running and leaves every file written so far in place.
C15_WriteErrorIsolated ==
  [][WriteFailed =>
       /\ pc' # "done" /\ outcome' = "running"
       /\ \A p \in DOMAIN files : p \in DOMAIN files' /\ files'[p] = files[p]]_vars


\* C16: while the download pool runs, from the start of map() to the end of
\* the with block, no step changes assets_to_download.
C16_TaskSetFrozen ==
  [][in_pool => assets_to_download' = assets_to_download]_vars


\* the tasks download_asset has been called on and has returned from
Attempted == {results[i].task : i \in 1..Len(results)}

\* C17: when the run has completed, every task in assets_to_download,
\* those registered from a downloaded stylesheet included, has been
\* attempted by the pool: fetched, or skipped because its file exists.
C17_EveryTaskAttempted ==
  (pc = "done" /\ outcome = "complete") => assets_to_download \subseteq Attempted


\* the writes made by download_asset calls
AssetWrites ==
  {i \in 1..Len(wlog) : \E t \in assets_to_download : t.url = wlog[i].url}

\* C18: no file is written by the download_asset calls of two different
\* tasks: a call that found the file missing is the only one to write it.
C18_OneWriterPerPath ==
  \A i, j \in AssetWrites : wlog[i].path = wlog[j].path => wlog[i].url = wlog[j].url


\* two tasks of different URLs, both served, stored at the same path, in a
\* run that builds the export in a new directory
Colliding(t1, t2) ==
  /\ t1.url # t2.url
  /\ full_path(t1) = full_path(t2)
  /\ {t1.url, t2.url} \subseteq AssetSite
  /\ create_zip

\* the last write made to path
LastWrite(path) == CHOOSE i \in Writes(path) : \A j \in Writes(path) : j <= i

\* C19: after a pool without failed requests in a new directory, for two
\* served tasks of different URLs stored at the same path, both URLs were
\* requested, the path was written for each, and the file holds what the
\* later write stored.
C19_CollisionOverwrites ==
  (pc = "post" /\ failures = 0) =>
    \A t1, t2 \in assets_to_download :
      Colliding(t1, t2) =>
        /\ Requests("asset", t1.url) # {} /\ Requests("asset", t2.url) # {}
        /\ \E i, j \in Writes(full_path(t1)) :
             wlog[i].url = t1.url /\ wlog[j].url = t2.url
        /\ files[full_path(t1)].url = wlog[LastWrite(full_path(t1))].url


\* the URL of an entry of cms_paths
cms_url(entry) == IF engine = "reflow" THEN entry.url ELSE entry

\* the page requests made in this step
NewPageRequests ==
  {net'[i].url : i \in {k \in (Len(net) + 1)..Len(net') : net'[k].kind = "page"}}

\* C20: the expansion step is taken only with the link crawl finished, is
\* never taken again, and precedes the asset phase; in the CMS pass a step
\* requests nothing but the head of cms_paths (with or without ".html"),
\* queues no link and records no collection item; after the pass no page
\* is requested.
C20_CmsPassIsLeaf ==
  [][/\ (pc # "cms" /\ pc' = "cms") =>
          (links_to_crawl = <<>> /\ urls_to_crawl = <<>>)
     /\ (~in_pool /\ pc' \in {"pool", "post"}) => pc = "cms"
     /\ pc = "cms" =>
          /\ pc' \notin {"start", "links", "crawl"}
          /\ links_to_crawl' = links_to_crawl /\ urls_to_crawl' = urls_to_crawl
          /\ cms_pages' = cms_pages /\ cms_collections' = cms_collections
          /\ cms_paths' # cms_paths => (cms_paths # <<>> /\ cms_paths' = Tail(cms_paths))
          /\ NewPageRequests # {} =>
               /\ cms_paths # <<>>
               /\ NewPageRequests \subseteq
                    {cms_url(Head(cms_paths)), cut_suffix(cms_url(Head(cms_paths)), ".html")}
     /\ pc \in {"pool", "pool_wait", "pool_raised", "post", "done"} =>
          (NewPageRequests = {} /\ cms_paths' = cms_paths /\ pc' # "cms")]_vars

\* a completed run whose CMS pass fetched /blog/post-c, a page holding a
\* link to /team and collection records: /team was not requested and no
\* record was taken from the page
C20_Witness ==
  /\ pc = "done" /\ outcome = "complete" /\ process_cms
  /\ \E i \in 1..Len(net) : net[i] = Req("page", Url(<<"/", "blog", "/", "post-c">>), 200)
  /\ \E i \in 1..Len(Site[Url(<<"/", "blog", "/", "post-c">>)]) :
       Site[Url(<<"/", "blog", "/", "post-c">>)][i] = El("a", <<"/", "team">>)
  /\ \E i \in 1..Len(Site[Url(<<"/", "blog", "/", "post-c">>)]) :
       Site[Url(<<"/", "blog", "/", "post-c">>)][i].tag = "item"
  /\ Requests("page", Url(<<"/", "team">>)) = {}
  /\ \A k \in 1..Len(cms_pages) : \A i \in 1..Len(cms_pages[k].items) :
       cms_pages[k].items[i].url # Url(<<"/", "blog", "/", "post-c">>)


\* the download_asset calls in progress: taken by a thread, not yet returned
InProgress == {w \in DOMAIN workers : workers[w].st = "get"}

\* C21: at most max_workers download_asset calls are in progress.
C21_BoundedConcurrency == Cardinality(InProgress) <= max_workers

\* max_workers calls are in progress while a submitted task waits
C21_Witness ==
  /\ in_pool
  /\ Cardinality(InProgress) = max_workers
  /\ queue # <<>>


\* the asset requests made in this step
NewAssetRequests ==
  {net'[i].url : i \in {k \in (Len(net) + 1)..Len(net') : net'[k].kind = "asset"}}

\* C22: an asset is requested only in the download phase, and from the
\* start of the download phase on no page is requested.
C22_PagesBeforeAssets ==
  [][/\ NewAssetRequests # {} => in_pool
     /\ (in_pool \/ pc \in {"post", "done"}) => NewPageRequests = {}
     /\ \A i, j \in 1..Len(net') :
          (net'[i].kind = "asset" /\ net'[j].kind = "page") => j < i]_vars

\* a completed run that requested pages in the link crawl and in the CMS
\* pass, and then assets
C22_Witness ==
  /\ pc = "done" /\ outcome = "complete"
  /\ Cardinality({i \in 1..Len(net) : net[i].kind = "page"}) >= 3
  /\ \E i \in 1..Len(net) : net[i].kind = "asset" /\ net[i].status = 200
  /\ \E i \in 1..Len(net) : net[i].kind = "asset" /\ net[i].status # 200
  /\ \A i \in 1..Len(net) : net[i].kind = "page" =>
       \A j \in 1..Len(net) : net[j].kind = "asset" => i < j


\* main: crawl_site() returning lets the process exit with status 0, an
\* exception leaving crawl_site ends it with a traceback and status 1
exit_status == IF outcome \in {"raised", "write_error"} THEN 1 ELSE 0

\* Reflow.crawl_site: make_archive runs at the end of a run with create_zip
archived == pc = "done" /\ outcome = "complete" /\ create_zip

\* the answer to the request for the seed page
SeedFetched == \E i \in 1..Len(net) : net[i] = Req("page", base_url, 200)

\* C23: when Reflow's run has ended, a failed seed fetch has given a
\* failure status with no other request made and no archive, and a
\* successful seed fetch has given the success status.
C23_OutcomeFollowsSeed ==
  (engine = "reflow" /\ pc = "done") =>
    IF SeedFetched THEN exit_status = 0
    ELSE exit_status # 0 /\ Len(net) = 1 /\ ~archived


\* C24: with CMS processing disabled no collection record is stored, no
\* CMS URL is synthesized, and neither cms_pages.json nor
\* cms_collections.json is written.
C24_CmsDisabledInert ==
  ~process_cms =>
    /\ cms_pages = <<>> /\ cms_collections = <<>>
    /\ cms_paths = <<>>
    /\ Writes(cms_pages_json) = {} /\ Writes(cms_collections_json) = {}


\* an asset element whose reference names another host than the seed's
cross_host(e) ==
  /\ e.tag \in {"img", "css", "script", "style", "icon"}
  /\ urlparse_netloc(e.val) \notin {"", domain}

\* C25: a document rewriter registers asset tasks of the seed's host only,
\* and an asset element that references another host keeps its reference.
C25_SameOriginAssetsOnly ==
  call.op \in {"process_html", "wf_process_html"} =>
    /\ \A t \in call.tasks : urlparse_netloc(t.url) = domain
    /\ (Len(call.soup) = 1 /\ cross_host(call.soup[1])) => call.once = call.soup


\* the page URL an href of a document fetched from url names, without a
\* trailing slash or .html
linked_page(url, href) ==
  urljoin(base_url,
          rstrip(cut_suffix(or_root(urlparse_path(urljoin(url, href))), ".html"),
                 "/"))

\* an <a> of the page as served that process_html rewrites as a link of the
\* seed's host
same_origin_link(url, e) ==
  /\ e.tag = "a"
  /\ ~(startswith(e.val, "#") \/ startswith(e.val, "mailto:")
         \/ startswith(e.val, "tel:"))
  /\ urlparse_netloc(urljoin(url, e.val)) = domain

\* the file a reference inside the document at path names
resolved_from(path, ref) == normpath(join(dirname(path), ref))

\* C26: in every page Reflow has written, a rewritten same-origin href,
\* resolved against the page's output file, names the file in which the
\* crawl wrote the linked page.
C26_LinksMatchOutputs ==
  engine = "reflow" =>
    \A p, q \in DOMAIN files :
      (files[p].kind = "page" /\ files[q].kind = "page") =>
        \A i \in 1..Len(files[p].body) :
          ( /\ same_origin_link(files[p].url, Site[files[p].url][i])
            /\ linked_page(files[p].url, Site[files[p].url][i].val) = files[q].url )
          => resolved_from(p, files[p].body[i].val) = q


\* the page path of a URL: the path component without its trailing slash,
\* with .html appended if absent; the root path is index.html
canonical_path(url) ==
  LET named(path) == IF path = <<>> THEN <<"index", ".html">>
                     ELSE add_suffix(path, ".html")
  IN  named(lstrip(rstrip(urlparse_path(url), "/"), "/"))

\* the writes of page documents
PageWrites == {i \in 1..Len(wlog) : wlog[i].url \in DOMAIN Site}

\* C27: two pages with different page paths are never written to the same
\* output file in one run.
C27_DistinctPagesDistinctFiles ==
  \A i, j \in PageWrites :
    canonical_path(wlog[i].url) # canonical_path(wlog[j].url)
      => wlog[i].path # wlog[j].path


\* the pages fetched so far
FetchedPages ==
  {u \in DOMAIN Site : \E i \in 1..Len(net) : net[i] = Req("page", u, 200)}

\* the same-origin hyperlinks of a page as the server renders it, resolved
\* against the page's URL
original_links(url) ==
  { page_key(urljoin(url, Site[url][i].val)) :
      i \in {k \in 1..Len(Site[url]) : same_origin_link(url, Site[url][k])} }

\* the CMS URLs the engine synthesizes from the recorded collections
synthesized ==
  IF engine = "reflow"
  THEN LET paths == extract_cms_paths(cms_pages, process_cms)
       IN  {page_key(paths[i].url) : i \in 1..Len(paths)}
  ELSE LET urls == wf_extract_cms_paths(cms_collections)
       IN  {page_key(urls[i]) : i \in 1..Len(urls)}

\* C28: every URL requested as a page is the seed, a same-origin hyperlink
\* of a fetched page as served (before the rewrite), or a synthesized CMS
\* URL; a javascript:, mailto: or tel: href leads to no request.
C28_FetchedFromOriginalLinks ==
  \A i \in 1..Len(net) :
    net[i].kind = "page" =>
      page_key(net[i].url) \in
        {page_key(base_url)} \cup synthesized
          \cup UNION {original_links(u) : u \in FetchedPages}


\* the URLs of the site's pages, with and without .html
PageUrls == DOMAIN Site \cup {u \o <<".html">> : u \in DOMAIN Site}

\* one iteration of the frontier loop either records a new visited URL, of
\* which the site has finitely many, or leaves visited_urls alone and
\* shortens the queue
FrontierStep ==
  (engine = "webflow" /\ pc = "crawl" /\ pc' = "crawl") =>
    \/ /\ visited_urls # visited_urls' /\ visited_urls \subseteq visited_urls'
       /\ visited_urls' \subseteq PageUrls
    \/ visited_urls' = visited_urls /\ Len(urls_to_crawl') < Len(urls_to_crawl)

\* C29: WebflowExporter's frontier loop terminates: every iteration makes
\* progress (a new visited URL, or a shorter queue), and eventually the
\* loop is left, with an empty queue unless a write error ended the run.
C29_FrontierTerminates ==
  /\ [][FrontierStep]_vars
  /\ <>(engine = "webflow" =>
          /\ pc # "crawl"
          /\ outcome # "write_error" => urls_to_crawl = <<>>)

C29_Witness ==
  /\ engine = "webflow" /\ pc = "cms" /\ urls_to_crawl = <<>>
  /\ \E i \in 1..Len(net) : net[i].kind = "page" /\ net[i].status # 200
  /\ Cardinality(Requests("page", Url(<<"/", "about">>))) = 1
  /\ {Url(<<"/", "about">>), Url(<<"/", "team">>)} \subseteq visited_urls


\* the download_asset calls submitted and not yet returned
Outstanding == Len(queue) + Cardinality(InProgress)

\* crawl_site is past the download phase
after_pool == pc \in {"post", "done"}

\* C30: the steps after the download phase begin only when every submitted
\* download_asset call has returned, and from then on no asset is requested
\* and no asset file is written.
C30_PostAfterJoin ==
  [][/\ after_pool' => Outstanding' = 0
     /\ after_pool => /\ NewAssetRequests = {}
                      /\ \A p \in DOMAIN files' :
                           files'[p].kind = "asset" =>
                             p \in DOMAIN files /\ files[p] = files'[p]]_vars

C30_Witness ==
  /\ pc = "done" /\ outcome = "complete" /\ create_zip
  /\ Len(results) > max_workers
  /\ \E i \in 1..Len(net) : net[i].kind = "asset" /\ net[i].status = 200

=============================================================================
